---- MODULE Spec2Model ----
(***************************************************************************)
(* SplineParsedMaterial: a MOOSE material that evaluates a free energy     *)
(* f(c) and its derivatives by cubic-spline interpolation.                 *)
(*                                                                         *)
(* A Real is modelled as an exact rational <<num, den>> in lowest terms    *)
(* with den > 0.  Text written to Moose::out is not part of the state.     *)
(***************************************************************************)
EXTENDS Integers, Sequences, FiniteSets

\* ------------------------------------------------------------------ bounds
MaxLen == 3      \* longest x / y parameter vector
MaxOrder == 3    \* largest derivative order configured or queried
NumQp == 2       \* quadrature points per element
MaxStep == 1     \* last time step the host reaches
NumThreads == 2  \* threads evaluating concurrently

\* ------------------------------------------------------------- rationals
RECURSIVE GCD(_, _)
GCD(a, b) == IF b = 0 THEN a ELSE GCD(b, a % b)

Abs(n) == IF n < 0 THEN -n ELSE n

\* n/d in lowest terms with a positive denominator, g = gcd(|n|, |d|)
Reduce(n, d, g) ==
  IF d < 0 THEN <<(-n) \div g, (-d) \div g>> ELSE <<n \div g, d \div g>>

RNorm(n, d) == Reduce(n, d, GCD(Abs(n), Abs(d)))

I(n) == <<n, 1>>
Zero == I(0)
One == I(1)
RAdd(a, b) == RNorm(a[1] * b[2] + b[1] * a[2], a[2] * b[2])
RSub(a, b) == RNorm(a[1] * b[2] - b[1] * a[2], a[2] * b[2])
RMul(a, b) == RNorm(a[1] * b[1], a[2] * b[2])
RDiv(a, b) == RNorm(a[1] * b[2], a[2] * b[1])
RLt(a, b) == a[1] * b[2] < b[1] * a[2]
RLe(a, b) == a[1] * b[2] <= b[1] * a[2]
RMin(a, b) == IF RLt(b, a) THEN b ELSE a      \* std::min(a, b)
RMax(a, b) == IF RLt(a, b) THEN b ELSE a      \* std::max(a, b)

\* The default of yp1 / ypn, 1e30: larger than every slope of the model.
Big1e30 == <<1, 0>>

\* eps of the finite-difference cross-check in computeQpProperties
Eps == <<1, 1000000>>

\* --------------------------------------------------- SplineInterpolation
\* The spline solver and sampler of the framework (SplineInterpolation.h),
\* modelled from the description of the builder and the evaluator.

IsNatural(yp) == yp = Big1e30

\* One step of the forward sweep at interior knot i, given sig and p.
SweepStep(x, y, i, st, sig, p) ==
  [y2 |-> Append(st.y2, RDiv(RSub(sig, One), p)),
   u |-> Append(st.u,
           RDiv(RSub(RDiv(RMul(I(6),
                               RSub(RDiv(RSub(y[i+1], y[i]),
                                         RSub(x[i+1], x[i])),
                                    RDiv(RSub(y[i], y[i-1]),
                                         RSub(x[i], x[i-1])))),
                          RSub(x[i+1], x[i-1])),
                     RMul(sig, st.u[i-1])), p))]

SweepAt(x, y, i, st, sig) ==
  SweepStep(x, y, i, st, sig, RAdd(RMul(sig, st.y2[i-1]), I(2)))

\* Forward sweep of the tridiagonal decomposition over the interior knots
\* i..n-1; st = [y2, u] holds the entries 1..i-1.
RECURSIVE SplineSweep(_, _, _, _)
SplineSweep(x, y, i, st) ==
  IF i > Len(x) - 1 THEN st
  ELSE SplineSweep(x, y, i + 1,
         SweepAt(x, y, i, st,
                 RDiv(RSub(x[i], x[i-1]), RSub(x[i+1], x[i-1]))))

\* Back substitution: y2[k-1] = y2[k-1] * y2[k] + u[k-1] for k = n .. 2.
RECURSIVE SplineBack(_, _, _)
SplineBack(y2, u, k) ==
  IF k < 2 THEN y2
  ELSE SplineBack([y2 EXCEPT ![k-1] = RAdd(RMul(y2[k-1], y2[k]), u[k-1])],
                  u, k - 1)

\* The left boundary equation: natural (y2 = 0) or the slope yp1.
LeftBoundary(x, y, yp1) ==
  IF IsNatural(yp1) THEN [y2 |-> <<Zero>>, u |-> <<Zero>>]
  ELSE [y2 |-> <<<<-1, 2>>>>,
        u |-> <<RMul(RDiv(I(3), RSub(x[2], x[1])),
                     RSub(RDiv(RSub(y[2], y[1]), RSub(x[2], x[1])), yp1))>>]

\* The right boundary equation: qn and un.
RightBoundary(x, y, ypn, n) ==
  IF IsNatural(ypn) THEN [qn |-> Zero, un |-> Zero]
  ELSE [qn |-> <<1, 2>>,
        un |-> RMul(RDiv(I(3), RSub(x[n], x[n-1])),
                    RSub(ypn, RDiv(RSub(y[n], y[n-1]), RSub(x[n], x[n-1]))))]

SolveLast(st, rb, n) ==
  SplineBack(Append(st.y2,
                    RDiv(RSub(rb.un, RMul(rb.qn, st.u[n-1])),
                         RAdd(RMul(rb.qn, st.y2[n-1]), One))),
             st.u, n)

\* Second derivatives at the knots for (x, y, yp1, ypn).
SplineSolve(x, y, yp1, ypn) ==
  SolveLast(SplineSweep(x, y, 2, LeftBoundary(x, y, yp1)),
            RightBoundary(x, y, ypn, Len(x)), Len(x))

\* Binary search for the interval [x[klo], x[khi]] holding c.
RECURSIVE FindInterval(_, _, _, _)
FindInterval(x, c, klo, khi) ==
  IF khi - klo <= 1 THEN <<klo, khi>>
  ELSE IF RLt(c, x[(khi + klo) \div 2])
       THEN FindInterval(x, c, klo, (khi + klo) \div 2)
       ELSE FindInterval(x, c, (khi + klo) \div 2, khi)

\* h, a = (x[khi] - c)/h and b = (c - x[klo])/h on the interval iv.
CoeffsOn(s, c, iv, h) ==
  [klo |-> iv[1], khi |-> iv[2], h |-> h,
   a |-> RDiv(RSub(s.x[iv[2]], c), h),
   b |-> RDiv(RSub(c, s.x[iv[1]]), h)]

CoeffsIn(s, c, iv) == CoeffsOn(s, c, iv, RSub(s.x[iv[2]], s.x[iv[1]]))

SplineCoeffs(s, c) == CoeffsIn(s, c, FindInterval(s.x, c, 1, Len(s.x)))

Cube(a) == RMul(a, RMul(a, a))

\* value = a*y[i] + b*y[i+1] + ((a^3-a)*y2[i] + (b^3-b)*y2[i+1]) * h^2/6
SampleWith(s, k) ==
  RAdd(RAdd(RMul(k.a, s.y[k.klo]), RMul(k.b, s.y[k.khi])),
       RDiv(RMul(RAdd(RMul(RSub(Cube(k.a), k.a), s.y2[k.klo]),
                      RMul(RSub(Cube(k.b), k.b), s.y2[k.khi])),
                 RMul(k.h, k.h)), I(6)))

SplineSample(s, c) == SampleWith(s, SplineCoeffs(s, c))

\* (y[i+1]-y[i])/h - (3a^2-1)/6*h*y2[i] + (3b^2-1)/6*h*y2[i+1]
SampleDerivativeWith(s, k) ==
  RAdd(RSub(RDiv(RSub(s.y[k.khi], s.y[k.klo]), k.h),
            RMul(RDiv(RSub(RMul(I(3), RMul(k.a, k.a)), One), I(6)),
                 RMul(k.h, s.y2[k.klo]))),
       RMul(RDiv(RSub(RMul(I(3), RMul(k.b, k.b)), One), I(6)),
            RMul(k.h, s.y2[k.khi])))

SplineSampleDerivative(s, c) == SampleDerivativeWith(s, SplineCoeffs(s, c))

\* a*y2[i] + b*y2[i+1]
Sample2ndDerivativeWith(s, k) ==
  RAdd(RMul(k.a, s.y2[k.klo]), RMul(k.b, s.y2[k.khi]))

SplineSample2ndDerivative(s, c) ==
  Sample2ndDerivativeWith(s, SplineCoeffs(s, c))

\* _spline before setData
EmptySpline == [x |-> <<>>, y |-> <<>>, y2 |-> <<>>]

\* SplineInterpolation::setData(x, y, yp1, ypn)
SetData(x, y, yp1, ypn) ==
  [x |-> x, y |-> y, y2 |-> SplineSolve(x, y, yp1, ypn)]


\* ------------------------------------------------------------------ state
VARIABLES
  pc,                \* "unbuilt" | "constructed" | "error" | "crashed"
  err,               \* the paramError that ended construction, or "none"
  params,            \* the InputParameters the constructor was given
  x_values,          \* _x_values
  y_values,          \* _y_values
  x_min,             \* _x_min
  x_max,             \* _x_max
  derivative_order,  \* _derivative_order
  dF_dc,             \* _dF_dc != nullptr
  d2F_dc2,           \* _d2F_dc2 != nullptr
  spline,            \* _spline
  setDataCalls,      \* calls of _spline.setData on this instance
  nameWarning,       \* the constructor warned that spline_variable differs
  f,                 \* _f, one entry per quadrature point
  dF,                \* *_dF_dc
  d2F,               \* *_d2F_dc2
  qp,                \* _qp
  c_val,             \* _c_val, the coupled variable at each quadrature point
  t_step,            \* _t_step
  warned,            \* static bool warned of computeValue
  warnings,          \* out-of-domain warnings sent to mooseWarning so far
  ret,               \* the last call and what it returned
  tpc,               \* each thread's position inside its evaluator call
  tloc               \* each thread's locals (c, order, the value read of warned)

vars == <<pc, err, params, x_values, y_values, x_min, x_max, derivative_order,
          dF_dc, d2F_dc2, spline, setDataCalls, nameWarning, f, dF, d2F, qp,
          c_val, t_step, warned, warnings, ret, tpc, tloc>>

instanceVars == <<x_values, y_values, x_min, x_max, derivative_order, dF_dc,
                  d2F_dc2, spline, setDataCalls>>
propVars == <<f, dF, d2F, qp, c_val>>
threadVars == <<tpc, tloc>>

QPoints == 0 .. NumQp - 1
Threads == 1 .. NumThreads

\* An entry no computeQpProperties call has written yet.
Unset == <<0, 0>>
NoProps == [q \in QPoints |-> Unset]
NoRet == [op |-> "none", c |-> Zero, order |-> 0, val |-> Zero,
          sampled |-> FALSE]
NoParams == [x |-> <<>>, y |-> <<>>, yp1 |-> Big1e30, ypn |-> Big1e30,
             derivative_order |-> 0, names_match |-> TRUE]
NoLocals == [op |-> "none", c |-> Zero, order |-> 0, sawWarned |-> FALSE,
             val |-> Zero, arg |-> Zero]

Init ==
  /\ pc = "unbuilt"
  /\ err = "none"
  /\ params = NoParams
  /\ x_values = <<>>
  /\ y_values = <<>>
  /\ x_min = Zero
  /\ x_max = Zero
  /\ derivative_order = 0
  /\ dF_dc = FALSE
  /\ d2F_dc2 = FALSE
  /\ spline = EmptySpline
  /\ setDataCalls = 0
  /\ nameWarning = FALSE
  /\ f = NoProps
  /\ dF = NoProps
  /\ d2F = NoProps
  /\ qp = 0
  /\ c_val = NoProps
  /\ t_step = 0
  /\ warned = FALSE
  /\ warnings = 0
  /\ ret = NoRet
  /\ tpc = [t \in Threads |-> "idle"]
  /\ tloc = [t \in Threads |-> NoLocals]

\* ----------------------------------------------------------- construction
\* What reading front() / back() of an empty vector may yield when the read
\* does not fault.
IndeterminateReals == {Zero, I(MaxLen + 4)}

\* Variant of FrontRead: _x_min initialised from back().
FrontRead_Back(x) == IF x = <<>> THEN IndeterminateReals ELSE {x[Len(x)]}

FrontRead(x) == IF x = <<>> THEN IndeterminateReals ELSE {x[1]}

\* Variant of BackRead: _x_max initialised from front().
BackRead_Front(x) == IF x = <<>> THEN IndeterminateReals ELSE {x[1]}

BackRead(x) == IF x = <<>> THEN IndeterminateReals ELSE {x[Len(x)]}

\* The loop of lines 72-76: some x[i] <= x[i-1].
NotIncreasing(x) == \E i \in 2 .. Len(x) : RLe(x[i], x[i-1])

\* The paramError the validation of lines 65-76 raises, or "none".
ValidationError(x, y) ==
  IF Len(x) # Len(y) THEN "LengthMismatch"
  ELSE IF Len(x) < 2 THEN "InsufficientPoints"
  ELSE IF NotIncreasing(x) THEN "NotStrictlyIncreasing"
  ELSE "none"

\* The member initializers of lines 47-58 and the body up to line 100.
Construct(x, y, yp1, ypn, d, nm) ==
  /\ pc = "unbuilt"
  /\ params' = [x |-> x, y |-> y, yp1 |-> yp1, ypn |-> ypn,
                derivative_order |-> d, names_match |-> nm]
  /\ \/ \* _x_values.front() on an empty vector faults
        /\ x = <<>>
        /\ pc' = "crashed"
        /\ x_values' = x
        /\ y_values' = y
        /\ derivative_order' = d
        /\ UNCHANGED <<err, x_min, x_max, dF_dc, d2F_dc2, spline,
                       setDataCalls, nameWarning>>
     \/ \E lo \in FrontRead(x), hi \in BackRead(x) :
          LET e == ValidationError(x, y) IN
          /\ x_values' = x
          /\ y_values' = y
          /\ derivative_order' = d
          /\ x_min' = lo
          /\ x_max' = hi
          /\ err' = e
          /\ IF e # "none"
             THEN /\ pc' = "error"
                  /\ UNCHANGED <<dF_dc, d2F_dc2, spline, setDataCalls,
                                 nameWarning>>
             ELSE /\ pc' = "constructed"
                  /\ spline' = SetData(x, y, yp1, ypn)
                  /\ setDataCalls' = setDataCalls + 1
                  /\ nameWarning' = ~nm
                  /\ dF_dc' = (d >= 1)
                  /\ d2F_dc2' = (d >= 2)
  /\ UNCHANGED <<propVars, t_step, warned, warnings, ret, threadVars>>

\* -------------------------------------------------------------- evaluator
\* c < _x_min || c > _x_max
OutOfDomain(c) == RLt(c, x_min) \/ RLt(x_max, c)

\* Variant of ClampToDomain: the upper bound is not applied.
ClampToDomain_NoUpper(c) == RMax(x_min, c)

\* std::max(_x_min, std::min(_x_max, c))
ClampToDomain(c) == RMax(x_min, RMin(x_max, c))

\* c as it reaches the spline: clamped when it lies outside the domain.
ClampedArg(c) == IF OutOfDomain(c) THEN ClampToDomain(c) ELSE c

\* Variant of WarnsNow: the static flag is not consulted.
WarnsNow_NoFlag(c, w) == OutOfDomain(c) /\ t_step = 0

\* computeValue(c) emits the warning: !warned && _t_step == 0, outside.
WarnsNow(c, w) == OutOfDomain(c) /\ ~w /\ t_step = 0

\* What computeValue(c) returns.
ComputeValueResult(c) == SplineSample(spline, ClampedArg(c))

\* What computeDerivative(c, order) returns, and whether it sampled.
\* Variant of DerivativeSwitch: orders above 2 fall into case 2.
DerivativeSwitch_NoDefault(cc, order) ==
  CASE order = 0 -> [val |-> SplineSample(spline, cc), sampled |-> TRUE]
    [] order = 1 -> [val |-> SplineSampleDerivative(spline, cc),
                     sampled |-> TRUE]
    [] OTHER -> [val |-> SplineSample2ndDerivative(spline, cc),
                 sampled |-> TRUE]

\* The switch of computeDerivative on the clamped argument cc.
DerivativeSwitch(cc, order) ==
  CASE order = 0 -> [val |-> SplineSample(spline, cc), sampled |-> TRUE]
    [] order = 1 -> [val |-> SplineSampleDerivative(spline, cc),
                     sampled |-> TRUE]
    [] order = 2 -> [val |-> SplineSample2ndDerivative(spline, cc),
                     sampled |-> TRUE]
    [] OTHER -> [val |-> Zero, sampled |-> FALSE]

ComputeDerivativeResult(c, order) == DerivativeSwitch(ClampedArg(c), order)

\* The static flag and the warnings emitted after computeValue is called
\* with each of args in turn, starting from st = [warned, emitted].
RECURSIVE ComputeValueCalls(_, _)
ComputeValueCalls(args, st) ==
  IF args = <<>> THEN st
  ELSE ComputeValueCalls(Tail(args),
         IF WarnsNow(Head(args), st.warned)
         THEN [warned |-> TRUE, emitted |-> st.emitted + 1]
         ELSE st)

\* Real SplineParsedMaterial::computeValue(Real c) const
ComputeValue(c) ==
  /\ pc = "constructed"
  /\ LET st == ComputeValueCalls(<<c>>, [warned |-> warned, emitted |-> 0])
     IN  /\ warned' = st.warned
         /\ warnings' = warnings + st.emitted
  /\ ret' = [op |-> "computeValue", c |-> c, order |-> 0,
             val |-> ComputeValueResult(c), sampled |-> TRUE]
  /\ UNCHANGED <<pc, err, params, instanceVars, nameWarning, propVars, t_step,
                 threadVars>>

\* Variant of ComputeDerivative: it carries the warning block of computeValue.
ComputeDerivative_Warns(c, order) ==
  /\ pc = "constructed"
  /\ LET st == ComputeValueCalls(<<c>>, [warned |-> warned, emitted |-> 0])
     IN  /\ warned' = st.warned
         /\ warnings' = warnings + st.emitted
  /\ ret' = [op |-> "computeDerivative", c |-> c, order |-> order,
             val |-> ComputeDerivativeResult(c, order).val,
             sampled |-> ComputeDerivativeResult(c, order).sampled]
  /\ UNCHANGED <<pc, err, params, instanceVars, nameWarning, propVars, t_step,
                 threadVars>>

\* Real SplineParsedMaterial::computeDerivative(Real c, unsigned order) const
ComputeDerivative(c, order) ==
  /\ pc = "constructed"
  /\ LET r == ComputeDerivativeResult(c, order)
     IN  ret' = [op |-> "computeDerivative", c |-> c, order |-> order,
                 val |-> r.val, sampled |-> r.sampled]
  /\ UNCHANGED <<pc, err, params, instanceVars, nameWarning, propVars, t_step,
                 warned, warnings, threadVars>>

\* The computeValue calls of one computeQpProperties call, in order: the
\* value itself, then the finite-difference checks of lines 211-246, made at
\* the first quadrature point of time step 0 for each declared derivative.
QpValueCalls(q, c) ==
  LET check == q = 0 /\ t_step = 0
      pair == <<RAdd(c, Eps), RSub(c, Eps)>>
  IN  <<c>> \o (IF check /\ dF_dc THEN pair ELSE <<>>)
            \o (IF check /\ d2F_dc2 THEN pair ELSE <<>>)

\* Variant of StoresDerivative: the order has to exceed n.
StoresDerivative_OffByOne(n) ==
  derivative_order > n /\ (IF n = 1 THEN dF_dc ELSE d2F_dc2)

\* The guards of lines 198 and 204: _derivative_order >= n and the property
\* of the n-th derivative declared.
StoresDerivative(n) ==
  derivative_order >= n /\ (IF n = 1 THEN dF_dc ELSE d2F_dc2)

\* void SplineParsedMaterial::computeQpProperties(), called by the host with
\* _qp = q and _c_val[_qp] = c.
ComputeQpProperties(q, c) ==
  /\ pc = "constructed"
  /\ qp' = q
  /\ c_val' = [c_val EXCEPT ![q] = c]
  /\ f' = [f EXCEPT ![q] = ComputeValueResult(c)]
  /\ dF' = IF StoresDerivative(1)
           THEN [dF EXCEPT ![q] = ComputeDerivativeResult(c, 1).val]
           ELSE dF
  /\ d2F' = IF StoresDerivative(2)
            THEN [d2F EXCEPT ![q] = ComputeDerivativeResult(c, 2).val]
            ELSE d2F
  /\ LET st == ComputeValueCalls(QpValueCalls(q, c),
                                 [warned |-> warned, emitted |-> 0])
     IN  /\ warned' = st.warned
         /\ warnings' = warnings + st.emitted
  /\ ret' = [op |-> "computeQpProperties", c |-> c, order |-> 0,
             val |-> Zero, sampled |-> TRUE]
  /\ UNCHANGED <<pc, err, params, instanceVars, nameWarning, t_step,
                 threadVars>>

\* ------------------------------------------------------------------- host
\* The host moves on to the next time step (_t_step).
AdvanceTimeStep ==
  /\ t_step < MaxStep
  /\ t_step' = t_step + 1
  /\ UNCHANGED <<pc, err, params, instanceVars, nameWarning, propVars, warned,
                 warnings, ret, threadVars>>

\* The host sets up another material object; the static flag of
\* computeValue and the warnings already emitted stay.
NewInstance ==
  /\ pc = "constructed"
  /\ pc' = "unbuilt"
  /\ err' = "none"
  /\ params' = NoParams
  /\ x_values' = <<>>
  /\ y_values' = <<>>
  /\ x_min' = Zero
  /\ x_max' = Zero
  /\ derivative_order' = 0
  /\ dF_dc' = FALSE
  /\ d2F_dc2' = FALSE
  /\ spline' = EmptySpline
  /\ setDataCalls' = 0
  /\ nameWarning' = FALSE
  /\ f' = NoProps
  /\ dF' = NoProps
  /\ d2F' = NoProps
  /\ qp' = 0
  /\ c_val' = NoProps
  /\ ret' = NoRet
  /\ UNCHANGED <<t_step, warned, warnings, threadVars>>

\* ------------------------------------------------------------ input sets
RECURSIVE SeqsUpTo(_, _)
SeqsUpTo(S, n) ==
  IF n = 0 THEN {<<>>}
  ELSE LET shorter == SeqsUpTo(S, n - 1)
       IN  shorter \cup {Append(s, v) : s \in {t \in shorter : Len(t) = n - 1},
                                       v \in S}

Knots == {I(k) : k \in 0 .. MaxLen - 1}
Ordinates == {Zero, One}
Slopes == {Big1e30, One}
XSeqs == SeqsUpTo(Knots, MaxLen)
YSeqs == SeqsUpTo(Ordinates, MaxLen)
Orders == 0 .. MaxOrder

BuildNext ==
  /\ pc = "unbuilt"
  /\ \E x \in XSeqs, y \in YSeqs, yp1 \in Slopes, ypn \in Slopes,
        d \in Orders, nm \in BOOLEAN :
       Construct(x, y, yp1, ypn, d, nm)

SpecBuild == Init /\ [][BuildNext]_vars


\* Query coordinates: every half step from one below the first knot to one
\* above the last.
QueryCoords == {RNorm(k, 2) : k \in -2 .. 2 * MaxLen}

\* One object: its construction (both ends natural, or both clamped to
\* slope 1), then direct evaluator calls.
QueryNext ==
  \/ /\ pc = "unbuilt"
     /\ \E x \in XSeqs, y \in YSeqs, yp \in Slopes :
          Construct(x, y, yp, yp, 2, TRUE)
  \/ /\ pc = "constructed"
     /\ \E c \in QueryCoords : ComputeValue(c)
  \/ /\ pc = "constructed"
     /\ \E c \in QueryCoords, order \in Orders : ComputeDerivative(c, order)

SpecQuery == Init /\ [][QueryNext]_vars

\* The grids 0, 1, ..., n-1 of each length, and one that decreases.
Grids == {[i \in 1 .. n |-> I(i - 1)] : n \in 0 .. MaxLen} \cup {<<One, Zero>>}

\* y = 0, 1, 0, ... of each length
Alternating == {[i \in 1 .. n |-> I((i + 1) % 2)] : n \in 0 .. MaxLen}

\* Values of the coupled variable: between the first two knots, and on the
\* last knot of the longest grid (above the domain of the shorter ones).
CoupledVals == {<<1, 2>>, I(MaxLen - 1)}

\* The whole life of the material objects of one run.
Next ==
  \/ /\ pc = "unbuilt"
     /\ \E x \in Grids, y \in Alternating, d \in Orders :
          Construct(x, y, Big1e30, Big1e30, d, TRUE)
  \/ /\ pc = "constructed"
     /\ \E c \in CoupledVals : ComputeValue(c)
  \/ /\ pc = "constructed"
     /\ \E c \in CoupledVals, order \in {1, MaxOrder} :
          ComputeDerivative(c, order)
  \/ /\ pc = "constructed"
     /\ \E q \in QPoints, c \in CoupledVals : ComputeQpProperties(q, c)
  \/ AdvanceTimeStep
  \/ NewInstance

Spec == Init /\ [][Next]_vars

\* ---------------------------------------------------------------- threads
\* computeValue / computeDerivative run by several threads on one
\* constructed object, one statement at a time.
ThreadArgs == {<<-1, 2>>, <<1, 2>>}

SetLocal(t, l) == tloc' = [tloc EXCEPT ![t] = l]
Goto(t, where) == tpc' = [tpc EXCEPT ![t] = where]

threadFrame == <<pc, err, params, instanceVars, nameWarning, propVars, t_step,
                 ret>>

\* The thread enters computeValue(c) or computeDerivative(c, order).
T_Call(t, op, c, order) ==
  /\ pc = "constructed"
  /\ tpc[t] = "idle"
  /\ Goto(t, "check")
  /\ SetLocal(t, [op |-> op, c |-> c, order |-> order, sawWarned |-> FALSE,
                  val |-> Zero, arg |-> c])
  /\ UNCHANGED <<threadFrame, warned, warnings>>

\* if (c < _x_min || c > _x_max)
T_Check(t) ==
  /\ tpc[t] = "check"
  /\ Goto(t, IF ~OutOfDomain(tloc[t].c) THEN "sample"
             ELSE IF tloc[t].op = "computeValue" THEN "readWarned"
             ELSE "clamp")
  /\ UNCHANGED <<threadFrame, warned, warnings, tloc>>

\* if (!warned && _t_step == 0): the read of the static flag
T_ReadWarned(t) ==
  /\ tpc[t] = "readWarned"
  /\ SetLocal(t, [tloc[t] EXCEPT !.sawWarned = warned])
  /\ Goto(t, IF ~warned /\ t_step = 0 THEN "warn" ELSE "clamp")
  /\ UNCHANGED <<threadFrame, warned, warnings>>

\* mooseWarning(...)
T_Warn(t) ==
  /\ tpc[t] = "warn"
  /\ warnings' = warnings + 1
  /\ Goto(t, "writeWarned")
  /\ UNCHANGED <<threadFrame, warned, tloc>>

\* warned = true: the write of the static flag
T_WriteWarned(t) ==
  /\ tpc[t] = "writeWarned"
  /\ warned' = TRUE
  /\ Goto(t, "clamp")
  /\ UNCHANGED <<threadFrame, warnings, tloc>>

\* c = std::max(_x_min, std::min(_x_max, c))
T_Clamp(t) ==
  /\ tpc[t] = "clamp"
  /\ SetLocal(t, [tloc[t] EXCEPT !.c = ClampToDomain(tloc[t].c)])
  /\ Goto(t, "sample")
  /\ UNCHANGED <<threadFrame, warned, warnings>>

\* return _spline.sample(c), or the switch of computeDerivative
T_Sample(t) ==
  /\ tpc[t] = "sample"
  /\ SetLocal(t, [tloc[t] EXCEPT !.val =
       IF tloc[t].op = "computeValue" THEN SplineSample(spline, tloc[t].c)
       ELSE DerivativeSwitch(tloc[t].c, tloc[t].order).val])
  /\ Goto(t, "done")
  /\ UNCHANGED <<threadFrame, warned, warnings>>

\* The caller takes the result.
T_Return(t) ==
  /\ tpc[t] = "done"
  /\ Goto(t, "idle")
  /\ SetLocal(t, NoLocals)
  /\ UNCHANGED <<threadFrame, warned, warnings>>

ThreadsNext ==
  \/ /\ pc = "unbuilt"
     /\ \E x \in Grids, y \in Alternating :
          Construct(x, y, Big1e30, Big1e30, 2, TRUE)
  \/ /\ pc = "constructed"
     /\ \E t \in Threads, c \in ThreadArgs : T_Call(t, "computeValue", c, 0)
  \/ /\ pc = "constructed"
     /\ \E t \in Threads, c \in ThreadArgs :
          T_Call(t, "computeDerivative", c, 1)
  \/ \E t \in Threads : T_Check(t)
  \/ \E t \in Threads : T_ReadWarned(t)
  \/ \E t \in Threads : T_Warn(t)
  \/ \E t \in Threads : T_WriteWarned(t)
  \/ \E t \in Threads : T_Clamp(t)
  \/ \E t \in Threads : T_Sample(t)
  \/ \E t \in Threads : T_Return(t)

SpecThreads == Init /\ [][ThreadsNext]_vars


\* ---------------------------------------------------------------- claims
StrictlyIncreasing(x) == \A i \in 2 .. Len(x) : RLt(x[i-1], x[i])

ValidInput(p) ==
  Len(p.x) = Len(p.y) /\ Len(p.x) >= 2 /\ StrictlyIncreasing(p.x)

ConstructionErrors ==
  {"LengthMismatch", "InsufficientPoints", "NotStrictlyIncreasing"}

\* C1: construction hands the data to setData if and only if x and y have
\* equal length, at least 2, and x is strictly increasing; every other
\* input ends in a construction error with setData never called and no
\* spline state built.
C1_SetDataIffValid ==
  pc # "unbuilt" =>
    /\ (setDataCalls > 0) <=> ValidInput(params)
    /\ ~ValidInput(params) =>
         /\ pc = "error"
         /\ err \in ConstructionErrors
         /\ spline = EmptySpline

\* The part of C1 that every outcome of construction satisfies: setData is
\* called exactly for the valid inputs, and no spline state exists otherwise.
C1_NoSplineFromInvalidData ==
  pc # "unbuilt" =>
    /\ (setDataCalls > 0) <=> ValidInput(params)
    /\ ~ValidInput(params) => spline = EmptySpline /\ pc # "constructed"

\* C5: an x of fewer than 2 elements makes construction fail with
\* InsufficientPoints; stated here for the inputs whose y is as long as x,
\* where no other validation can answer first.
C5_InsufficientPointsReported ==
  (pc # "unbuilt" /\ Len(params.x) < 2 /\ Len(params.y) = Len(params.x)) =>
    (pc = "error" /\ err = "InsufficientPoints")

\* What the query (op, order) returns at a coordinate b of the domain.
QueryAt(op, order, b) ==
  IF op = "computeValue" THEN ComputeValueResult(b)
  ELSE ComputeDerivativeResult(b, order).val

IsQuery(r) == r.op \in {"computeValue", "computeDerivative"}

\* C2: a value, first- or second-derivative query below domain_min returns
\* what the same query returns at domain_min, one above domain_max what it
\* returns at domain_max, and the query does not fail.
C2_OutOfDomainEqualsBoundary ==
  (pc = "constructed" /\ IsQuery(ret) /\ ret.order <= 2) =>
    /\ err = "none"
    /\ RLt(ret.c, x_min) => ret.val = QueryAt(ret.op, ret.order, x_min)
    /\ RLt(x_max, ret.c) => ret.val = QueryAt(ret.op, ret.order, x_max)

\* A first-derivative query above the domain returned a non-zero slope.
C2_Witness ==
  /\ pc = "constructed"
  /\ ret.op = "computeDerivative"
  /\ ret.order = 1
  /\ RLt(x_max, ret.c)
  /\ ret.val # Zero

\* A step that is one evaluator query: the call that ret' records.
QueryStep ==
  \/ ComputeValue(ret'.c)
  \/ ComputeDerivative(ret'.c, ret'.order)

\* C3 as stated: a value or derivative query changes no state and emits no
\* warning.
C3_QueryChangesNothing ==
  [][QueryStep =>
       UNCHANGED <<pc, err, params, instanceVars, nameWarning, propVars,
                   t_step, warned, warnings, threadVars>>]_vars

\* C3 as amended: a query leaves the object, the properties and the time
\* step alone; a computeDerivative query changes and emits nothing; a
\* computeValue query emits one warning and sets the static warned flag
\* exactly when c is outside the domain, the time step is 0 and the flag is
\* still false, and changes and emits nothing otherwise.
C3_QueryChangesOnlyWarned ==
  [][QueryStep =>
       /\ UNCHANGED <<pc, err, params, instanceVars, nameWarning, propVars,
                      t_step, threadVars>>
       /\ IF /\ ret'.op = "computeValue"
             /\ RLt(ret'.c, x_min) \/ RLt(x_max, ret'.c)
             /\ t_step = 0
             /\ ~warned
          THEN warned' /\ warnings' = warnings + 1
          ELSE UNCHANGED <<warned, warnings>>]_vars

\* A computeValue query outside the domain has warned.
C3_Witness ==
  /\ pc = "constructed"
  /\ ret.op = "computeValue"
  /\ OutOfDomain(ret.c)
  /\ warned
  /\ warnings = 1
  /\ t_step = 0

\* C6: construction succeeds on every valid input, and computeValue at a
\* knot x[i] returns y[i], for natural and clamped boundaries alike.
C6_InterpolatesKnots ==
  /\ (pc # "unbuilt" /\ ValidInput(params)) => pc = "constructed"
  /\ (pc = "constructed" /\ ret.op = "computeValue") =>
       \A i \in 1 .. Len(x_values) :
         ret.c = x_values[i] => ret.val = y_values[i]

\* The value at the last of three knots of a spline with a clamped left end.
C6_Witness ==
  /\ pc = "constructed"
  /\ Len(x_values) = 3
  /\ params.yp1 # Big1e30
  /\ ret.op = "computeValue"
  /\ ret.c = x_values[3]
  /\ ret.val = One
  /\ spline.y2[2] # Zero

\* C8: a derivative query of order 3 or more returns exactly 0 and does not
\* sample the spline, inside and outside the domain.
C8_HighOrderIsZero ==
  (pc = "constructed" /\ ret.op = "computeDerivative" /\ ret.order >= 3) =>
    (ret.val = Zero /\ ~ret.sampled)

\* An order-3 query outside the domain of a spline whose second derivative
\* at that boundary is not zero.
C8_Witness ==
  /\ pc = "constructed"
  /\ ret.op = "computeDerivative"
  /\ ret.order >= 3
  /\ OutOfDomain(ret.c)
  /\ SplineSample2ndDerivative(spline, ClampedArg(ret.c)) # Zero


\* C7: once constructed, setData has run exactly once, domain_min is
\* x.front() and domain_max is x.back(), the spline holds x, y and the
\* second derivatives solved from (x, y, yp1, ypn), and no computeValue,
\* computeDerivative or computeQpProperties call (nor a time step) changes
\* any of them.
C7_SplineDataImmutable ==
  /\ [](pc = "constructed" =>
          /\ setDataCalls = 1
          /\ x_min = x_values[1]
          /\ x_max = x_values[Len(x_values)]
          /\ x_values = params.x
          /\ y_values = params.y
          /\ spline.x = x_values
          /\ spline.y = y_values
          /\ Len(spline.y2) = Len(x_values)
          /\ spline.y2 = SplineSolve(params.x, params.y, params.yp1,
                                     params.ypn))
  /\ [][(pc = "constructed" /\ pc' = "constructed") =>
          UNCHANGED <<x_values, y_values, spline, x_min, x_max,
                      setDataCalls>>]_vars

\* A three-knot object after computeQpProperties, computeValue or
\* computeDerivative calls that warned and wrote properties.
C7_Witness ==
  /\ pc = "constructed"
  /\ Len(x_values) = 3
  /\ warned
  /\ ret.op = "computeDerivative"
  /\ \A q \in QPoints : f[q] # Unset
  /\ t_step = MaxStep

\* C9: at every quadrature point the host has evaluated, the value property
\* holds computeValue(c[qp]); the first-derivative property holds
\* computeDerivative(c[qp], 1) if derivative_order >= 1 and was never
\* written otherwise; the second-derivative property holds
\* computeDerivative(c[qp], 2) if derivative_order >= 2 and was never written
\* otherwise; no entry of a point not yet evaluated was written; the
\* derivative properties are declared exactly for those orders.
C9_PropertiesFollowOrder ==
  pc = "constructed" =>
    /\ dF_dc <=> derivative_order >= 1
    /\ d2F_dc2 <=> derivative_order >= 2
    /\ \A q \in QPoints :
         IF c_val[q] = Unset
         THEN f[q] = Unset /\ dF[q] = Unset /\ d2F[q] = Unset
         ELSE /\ f[q] = SplineSample(spline, ClampedArg(c_val[q]))
              /\ dF[q] = IF derivative_order >= 1
                         THEN SplineSampleDerivative(spline,
                                                     ClampedArg(c_val[q]))
                         ELSE Unset
              /\ d2F[q] = IF derivative_order >= 2
                          THEN SplineSample2ndDerivative(spline,
                                                         ClampedArg(c_val[q]))
                          ELSE Unset

\* derivative_order = 1: the first derivative is stored at the one point
\* evaluated, the second is not, and the other point is untouched.
C9_Witness ==
  /\ pc = "constructed"
  /\ derivative_order = 1
  /\ ret.op = "computeQpProperties"
  /\ qp = 1
  /\ f[1] # Unset
  /\ dF[1] \notin {Unset, Zero}
  /\ d2F[1] = Unset
  /\ c_val[0] = Unset
  /\ f[0] = Unset

\* The computeValue arguments of the call that ret records.
CallArgs(r, q) ==
  IF r.op = "computeValue" THEN {r.c}
  ELSE IF r.op = "computeQpProperties"
  THEN {r.c} \cup (IF q = 0 THEN {RAdd(r.c, Eps), RSub(r.c, Eps)} ELSE {})
  ELSE {}

\* C10: the out-of-domain warning is emitted at most once over all calls on
\* all objects; only by a computeValue call (direct, or made by
\* computeQpProperties) whose argument is outside the domain while the time
\* step is 0, never by computeDerivative; and the static warned flag never
\* goes back to false.
C10_WarnsAtMostOnce ==
  /\ [](warnings <= 1 /\ (warnings = 1 <=> warned))
  /\ [][warnings' # warnings =>
          /\ warnings' = warnings + 1
          /\ t_step = 0
          /\ ~warned
          /\ pc = "constructed"
          /\ ret'.op # "computeDerivative"
          /\ \E a \in CallArgs(ret', qp') : OutOfDomain(a)]_vars
  /\ [][warned => warned']_vars

\* Both quadrature points were evaluated outside the domain at time step 0,
\* each by a computeValue call: one warning.
C10_Witness ==
  /\ pc = "constructed"
  /\ t_step = 0
  /\ warnings = 1
  /\ warned
  /\ \A q \in QPoints : c_val[q] # Unset /\ OutOfDomain(c_val[q])

\* Two threads are about to access the static flag, one of them to write it.
DataRace ==
  \E t1 \in Threads, t2 \in Threads :
    /\ t1 # t2
    /\ tpc[t1] = "writeWarned"
    /\ tpc[t2] \in {"readWarned", "writeWarned"}

\* Each finished query holds the result the same query returns when run
\* alone.
SameResultAsAlone ==
  \A t \in Threads :
    tpc[t] = "done" => tloc[t].val = QueryAt(tloc[t].op, tloc[t].order,
                                             tloc[t].arg)

\* C4: in every interleaving of concurrent value / derivative queries no
\* query writes a location another query reads or writes, and each query
\* returns what it returns when run alone.
C4_ConcurrentQueriesRaceFree == ~DataRace /\ SameResultAsAlone

====
